---------------------------- MODULE Spec2Model ----------------------------
(***************************************************************************)
(* The settlement engine of the bill splitter page: splitBill,             *)
(* computeNetBalances and optimizeSettlements, in the two revisions of the *)
(* page that the repository holds (src/src/app/page.tsx and                *)
(* src/unnamed/part_002).                                                  *)
(*                                                                         *)
(* Money is exact: every amount is an integer number of units of 0.005     *)
(* currency, so that the threshold 0.01 of part_002 is Eps = 2 units.      *)
(* Bill amounts and caps are multiples of Scale = lcm(1..NumUsers) units,  *)
(* which makes every division of the code (amount / n, remaining / n) an   *)
(* exact integer division.  Rounding of IEEE doubles is not modelled.      *)
(*                                                                         *)
(* A Record<string, number> is a sequence of entries [user, amount] in     *)
(* insertion order, which is the order Object.keys / Object.entries use.   *)
(***************************************************************************)
EXTENDS Integers, Sequences, FiniteSets

VARIABLES rev, bills, split, debits, net, creditors, debtors, settlements, pc,
          prev, api, store, request

vars == <<rev, bills, split, debits, net, creditors, debtors, settlements, pc,
          prev, api, store, request>>

----------------------------------------------------------------------------
(* Bounds of the model *)

NumUsers == 3
MaxAmount == 3
MaxCap == 3
MaxBills == 1
MaxBal == 5
NumParties == 4
MaxStore == 2
MaxId == 2
MaxData == 2

(* 0.01 in units of 0.005 *)
Eps == 2

Revisions == {"page", "part_002"}

(* const users = [...] : the participant universe, in list order *)
users == [i \in 1..NumUsers |-> i]

Users == 1..NumUsers

RECURSIVE Gcd(_, _)
Gcd(a, b) == IF b = 0 THEN a ELSE Gcd(b, a % b)

RECURSIVE LcmUpTo(_)
LcmUpTo(n) == IF n <= 1 THEN 1 ELSE (LcmUpTo(n - 1) * n) \div Gcd(LcmUpTo(n - 1), n)

Scale == LcmUpTo(NumUsers)

Larger(a, b) == IF a >= b THEN a ELSE b

Min(a, b) == IF a <= b THEN a ELSE b

----------------------------------------------------------------------------
(* Record<string, number> as a sequence of entries in insertion order *)

Keys(m) == {m[i].user : i \in 1..Len(m)}

Has(m, u) == u \in Keys(m)

(* (m[u] || 0) *)
Get(m, u) ==
    IF Has(m, u) THEN m[CHOOSE i \in 1..Len(m) : m[i].user = u].amount ELSE 0

(* m[u] = v *)
Put(m, u, v) ==
    IF Has(m, u)
    THEN [i \in 1..Len(m) |-> IF m[i].user = u THEN [user |-> u, amount |-> v] ELSE m[i]]
    ELSE Append(m, [user |-> u, amount |-> v])

RECURSIVE SumValues(_)
SumValues(m) == IF m = <<>> THEN 0 ELSE Head(m).amount + SumValues(Tail(m))

(* for (const user of us) m[user] = v *)
RECURSIVE PutAll(_, _, _)
PutAll(m, us, v) ==
    IF us = <<>> THEN m ELSE PutAll(Put(m, Head(us), v), Tail(us), v)

(* for (const user of us) m[user] = caps[user] *)
RECURSIVE PutCaps(_, _, _)
PutCaps(m, us, caps) ==
    IF us = <<>> THEN m ELSE PutCaps(Put(m, Head(us), caps[Head(us)]), Tail(us), caps)

(* for (const user of us) total += caps[user] *)
RECURSIVE SumCaps(_, _)
SumCaps(us, caps) ==
    IF us = <<>> THEN 0 ELSE caps[Head(us)] + SumCaps(Tail(us), caps)

(* for (const e of ds) m[e.user] = (m[e.user] || 0) - e.amount *)
RECURSIVE Debit(_, _)
Debit(m, ds) ==
    IF ds = <<>> THEN m
    ELSE Debit(Put(m, Head(ds).user, Get(m, Head(ds).user) - Head(ds).amount), Tail(ds))

(* for (const e of ds) m[e.user] = (m[e.user] || 0) + e.amount *)
RECURSIVE Accumulate(_, _)
Accumulate(m, ds) ==
    IF ds = <<>> THEN m
    ELSE Accumulate(Put(m, Head(ds).user, Get(m, Head(ds).user) + Head(ds).amount), Tail(ds))

----------------------------------------------------------------------------
(* The bills the model draws: well-formed (amount > 0, participants        *)
(* non-empty, caps non-negative with keys among the participants, payer in *)
(* the universe); participants are listed in the order of users.           *)

RECURSIVE SortedSeq(_)
SortedSeq(S) ==
    IF S = {} THEN <<>>
    ELSE LET x == CHOOSE y \in S : \A z \in S : y <= z
         IN <<x>> \o SortedSeq(S \ {x})

CapValues == {c * Scale : c \in 0..MaxCap}

CapMaps(P, V) == UNION {[K -> V] : K \in SUBSET P}

(* the participants and caps of a bill over the names U, caps drawn from V *)
Shapes(U, V) ==
    UNION {
        {[participants |-> SortedSeq(P), maxContributions |-> m] : m \in CapMaps(P, V)} :
        P \in SUBSET U}

BillsOver(A, U, S) ==
    {[amount |-> a * Scale, paidBy |-> p,
      participants |-> s.participants, maxContributions |-> s.maxContributions] :
        a \in A, p \in U, s \in S}

Bills ==
    BillsOver(1..MaxAmount, Users, {s \in Shapes(Users, CapValues) : s.participants # <<>>})

----------------------------------------------------------------------------
(* splitBill *)

HasMax(bill, u) == u \in DOMAIN bill.maxContributions

splitBillPageByAll(bill) ==
    LET caps == bill.maxContributions
        capped == SelectSeq(bill.participants, LAMBDA u : HasMax(bill, u))
        remainingParticipants == SelectSeq(bill.participants, LAMBDA u : ~HasMax(bill, u))
        remainingAmount == bill.amount - SumCaps(capped, caps)
        balances == PutCaps(<<>>, capped, caps)
    IN IF remainingParticipants = <<>>
       THEN balances
       ELSE PutAll(balances, remainingParticipants,
                   remainingAmount \div Len(bill.participants))

(* src/src/app/page.tsx: every entry of maxContributions fixes a share *)
splitBillPage(bill) ==
    LET caps == bill.maxContributions
        capped == SelectSeq(bill.participants, LAMBDA u : HasMax(bill, u))
        remainingParticipants == SelectSeq(bill.participants, LAMBDA u : ~HasMax(bill, u))
        fixedTotal == SumCaps(capped, caps)
        remainingAmount == bill.amount - fixedTotal
        balances == PutCaps(<<>>, capped, caps)
    IN IF remainingParticipants = <<>>
       THEN balances
       ELSE PutAll(balances, remainingParticipants,
                   remainingAmount \div Len(remainingParticipants))

(* src/unnamed/part_002: an entry below the equal share fixes a share *)
BelowEqualShare(bill, u) ==
    /\ HasMax(bill, u)
    /\ bill.maxContributions[u] < bill.amount \div Len(bill.participants)

splitBillPart002(bill) ==
    LET caps == bill.maxContributions
        zeroed == PutAll(<<>>, bill.participants, 0)
        fixed == SelectSeq(bill.participants, LAMBDA u : BelowEqualShare(bill, u))
        remainingParticipants ==
            SelectSeq(bill.participants, LAMBDA u : ~BelowEqualShare(bill, u))
        totalAssigned == SumCaps(fixed, caps)
        remainingAmount == bill.amount - totalAssigned
        balances == PutCaps(zeroed, fixed, caps)
    IN IF Len(remainingParticipants) > 0
       THEN PutAll(balances, remainingParticipants,
                   remainingAmount \div Len(remainingParticipants))
       ELSE IF remainingAmount > 0
            THEN Put(balances, bill.paidBy, remainingAmount)
            ELSE balances

splitBill(r, bill) ==
    IF r = "page" THEN splitBillPage(bill) ELSE splitBillPart002(bill)

----------------------------------------------------------------------------
(* computeNetBalances *)

(* part_002 lines 80-118: what one bill takes from each participant; an    *)
(* entry greater than 0 is a maximum, the others share the remainder.      *)
WithMax(bill, u) == HasMax(bill, u) /\ bill.maxContributions[u] > 0

RECURSIVE CapEntries(_, _)
CapEntries(us, caps) ==
    IF us = <<>> THEN <<>>
    ELSE <<[user |-> Head(us), amount |-> caps[Head(us)]]>> \o CapEntries(Tail(us), caps)

billDebitsPart002(bill) ==
    LET caps == bill.maxContributions
        participantsWithMax == SelectSeq(bill.participants, LAMBDA u : WithMax(bill, u))
        participantsWithoutMax == SelectSeq(bill.participants, LAMBDA u : ~WithMax(bill, u))
        totalAssigned == SumCaps(participantsWithMax, caps)
        remainingAmount == bill.amount - totalAssigned
        first == CapEntries(participantsWithMax, caps)
    IN IF Len(participantsWithoutMax) > 0
       THEN first \o [i \in 1..Len(participantsWithoutMax) |->
                        [user |-> participantsWithoutMax[i],
                         amount |-> remainingAmount \div Len(participantsWithoutMax)]]
       ELSE IF remainingAmount > 0
            THEN Append(first, [user |-> bill.paidBy, amount |-> remainingAmount])
            ELSE first

(* the subtractions one bill causes, in the order the code makes them *)
billDebits(r, bill) ==
    IF r = "page" THEN splitBillPage(bill) ELSE billDebitsPart002(bill)

CreditOverwrites(m, bill) == Put(m, bill.paidBy, bill.amount)

Credit(m, bill) == Put(m, bill.paidBy, Get(m, bill.paidBy) + bill.amount)

(* one iteration of for (const bill of bills) *)
applyBill(r, m, bill) ==
    IF r = "page"
    THEN Credit(Debit(m, billDebits(r, bill)), bill)
    ELSE Debit(Credit(m, bill), billDebits(r, bill))

initialNetKept(r) == net

(* part_002 starts from every user at 0, page.tsx from the empty record *)
initialNet(r) ==
    IF r = "page" THEN <<>> ELSE [i \in 1..Len(users) |-> [user |-> users[i], amount |-> 0]]

RECURSIVE foldBills(_, _, _)
foldBills(r, m, bs) ==
    IF bs = <<>> THEN m ELSE foldBills(r, applyBill(r, m, Head(bs)), Tail(bs))

computeNetBalances(r, bs) == foldBills(r, initialNet(r), bs)

----------------------------------------------------------------------------
(* optimizeSettlements *)

Threshold(r) == IF r = "page" THEN 0 ELSE Eps

IsCreditorLoose(r, balance) == balance >= Threshold(r)

IsCreditor(r, balance) == balance > Threshold(r)

IsDebtorLoose(r, balance) == balance <= -Threshold(r)

IsDebtor(r, balance) == balance < -Threshold(r)

SettledBelowZero(r, amount) == amount < 0

(* creditor.amount === 0 in page.tsx, creditor.amount < 0.01 in part_002 *)
Settled(r, amount) == IF r = "page" THEN amount = 0 ELSE amount < Eps

Negated(m) == [i \in 1..Len(m) |-> [user |-> m[i].user, amount |-> -m[i].amount]]

(* Array.prototype.sort((a, b) => b.amount - a.amount): stable, descending *)
RECURSIVE Insert(_, _)
Insert(s, e) ==
    IF s = <<>> THEN <<e>>
    ELSE IF Head(s).amount >= e.amount
         THEN <<Head(s)>> \o Insert(Tail(s), e)
         ELSE <<e>> \o s

RECURSIVE SortDesc(_)
SortDesc(s) ==
    IF s = <<>> THEN <<>>
    ELSE Insert(SortDesc(SubSeq(s, 1, Len(s) - 1)), s[Len(s)])

TransferToSelf(debtor, creditor, settleAmount) ==
    [from |-> creditor.user, to |-> creditor.user, amount |-> settleAmount]

TransferReversed(debtor, creditor, settleAmount) ==
    [from |-> creditor.user, to |-> debtor.user, amount |-> settleAmount]

Transfer(debtor, creditor, settleAmount) ==
    [from |-> debtor.user, to |-> creditor.user, amount |-> settleAmount]

PayWithoutShift(r, list, settleAmount) ==
    <<[Head(list) EXCEPT !.amount = Head(list).amount - settleAmount]>> \o Tail(list)

(* creditor.amount -= settleAmount; if (settled) list.shift() *)
Pay(r, list, settleAmount) ==
    LET left == Head(list).amount - settleAmount
    IN IF Settled(r, left)
       THEN Tail(list)
       ELSE <<[Head(list) EXCEPT !.amount = left]>> \o Tail(list)

----------------------------------------------------------------------------
(* The page: the bills state, and one render of it *)

Init ==
    /\ rev \in Revisions
    /\ bills = <<>>
    /\ split = <<>>
    /\ debits = <<>>
    /\ net = <<>>
    /\ creditors = <<>>
    /\ debtors = <<>>
    /\ settlements = <<>>
    /\ pc = "idle"
    /\ prev = <<>>
    /\ api = "route"
    /\ store = <<>>
    /\ request = <<>>

(* handleSubmit / fetchBills / setBills: one more bill in the state *)
SubmitBill ==
    /\ pc = "done"
    /\ Len(bills) < MaxBills
    /\ \E b \in Bills : bills' = Append(bills, b)
    /\ pc' = "idle"
    /\ UNCHANGED <<rev, split, debits, net, creditors, debtors, settlements>>
    /\ UNCHANGED <<prev, api, store, request>>

(* deleteBill / fetchBills / setBills: one bill less *)
DeleteBill ==
    /\ pc = "done"
    /\ \E i \in 1..Len(bills) :
         bills' = SubSeq(bills, 1, i - 1) \o SubSeq(bills, i + 1, Len(bills))
    /\ pc' = "idle"
    /\ UNCHANGED <<rev, split, debits, net, creditors, debtors, settlements>>
    /\ UNCHANGED <<prev, api, store, request>>

(* const net = computeNetBalances(bills); debits keeps, per bill, the      *)
(* subtractions the call made for it                                       *)
ComputeNet ==
    /\ pc = "idle"
    /\ net' = computeNetBalances(rev, bills)
    /\ debits' = [i \in 1..Len(bills) |-> billDebits(rev, bills[i])]
    /\ pc' = "computed"
    /\ UNCHANGED <<rev, bills, split, creditors, debtors, settlements>>
    /\ UNCHANGED <<prev, api, store, request>>

(* optimizeSettlements(net) up to the loop: partition and sort *)
StartOptimize ==
    /\ pc = "computed"
    /\ creditors' = SortDesc(SelectSeq(net, LAMBDA e : IsCreditor(rev, e.amount)))
    /\ debtors' = SortDesc(Negated(SelectSeq(net,
                      LAMBDA e : ~IsCreditor(rev, e.amount) /\ IsDebtor(rev, e.amount))))
    /\ settlements' = <<>>
    /\ pc' = "match"
    /\ UNCHANGED <<rev, bills, split, debits, net>>
    /\ UNCHANGED <<prev, api, store, request>>

(* one iteration of while (creditors.length && debtors.length) *)
MatchStep ==
    /\ pc = "match"
    /\ creditors # <<>>
    /\ debtors # <<>>
    /\ LET creditor == Head(creditors)
           debtor == Head(debtors)
           settleAmount == Min(creditor.amount, debtor.amount)
       IN /\ settlements' = Append(settlements, Transfer(debtor, creditor, settleAmount))
          /\ creditors' = Pay(rev, creditors, settleAmount)
          /\ debtors' = Pay(rev, debtors, settleAmount)
    /\ UNCHANGED <<rev, bills, split, debits, net, pc>>
    /\ UNCHANGED <<prev, api, store, request>>

(* the loop ends: return settlements *)
Return ==
    /\ pc = "match"
    /\ (creditors = <<>> \/ debtors = <<>>)
    /\ pc' = "done"
    /\ UNCHANGED <<rev, bills, split, debits, net, creditors, debtors, settlements>>
    /\ UNCHANGED <<prev, api, store, request>>

Next ==
    \/ SubmitBill
    \/ DeleteBill
    \/ ComputeNet
    \/ StartOptimize
    \/ MatchStep
    \/ Return

Spec == Init /\ [][Next]_vars

----------------------------------------------------------------------------
(* splitBill and the aggregation of one bill, on every bill of Bills *)

InitSplit ==
    /\ rev \in Revisions
    /\ \E b \in Bills : bills = <<b>>
    /\ split = <<>>
    /\ debits = <<>>
    /\ net = <<>>
    /\ creditors = <<>>
    /\ debtors = <<>>
    /\ settlements = <<>>
    /\ pc = "idle"
    /\ prev = <<>>
    /\ api = "route"
    /\ store = <<>>
    /\ request = <<>>

(* splitBill(bill): split holds the returned record *)
CallSplitBill ==
    /\ split = <<>>
    /\ split' = <<splitBill(rev, bills[1])>>
    /\ UNCHANGED <<rev, bills, debits, net, creditors, debtors, settlements, pc>>
    /\ UNCHANGED <<prev, api, store, request>>

NextSplit ==
    \/ CallSplitBill
    \/ ComputeNet

SpecSplit == InitSplit /\ [][NextSplit]_vars

----------------------------------------------------------------------------
(* splitBill and computeNetBalances on bills that need not be well-formed: *)
(* the amount may be 0 or negative, the participants may be empty, and the *)
(* payer or a participant may be Guest, a name that is not in users.  A    *)
(* cap, where there is one, is Scale.                                      *)

Guest == NumUsers + 1

Names == Users \cup {Guest}

LooseBills == BillsOver(-1..1, Names, Shapes(Names, {Scale}))

InitLoose ==
    /\ rev \in Revisions
    /\ \E b \in LooseBills : bills = <<b>>
    /\ split = <<>>
    /\ debits = <<>>
    /\ net = <<>>
    /\ creditors = <<>>
    /\ debtors = <<>>
    /\ settlements = <<>>
    /\ pc = "idle"
    /\ prev = <<>>
    /\ api = "route"
    /\ store = <<>>
    /\ request = <<>>

SpecLoose == InitLoose /\ [][NextSplit]_vars

----------------------------------------------------------------------------
(* computeNetBalances called twice on a collection of two bills, the       *)
(* second time on any permutation of it; prev keeps the first call.  The   *)
(* first bill has amount Scale, the second twice that, and a cap, where    *)
(* there is one, is Scale.                                                 *)

PairShapes == {s \in Shapes(Users, {Scale}) : s.participants # <<>>}

PairBills(a) == BillsOver({a}, Users, PairShapes)

BillPairs == PairBills(1) \X PairBills(2)

Reorderings(bs) ==
    {[i \in 1..Len(bs) |-> bs[f[i]]] :
        f \in {g \in [1..Len(bs) -> 1..Len(bs)] :
                  \A i, j \in 1..Len(bs) : g[i] = g[j] => i = j}}

InitOrder ==
    /\ rev \in Revisions
    /\ bills \in BillPairs
    /\ split = <<>>
    /\ debits = <<>>
    /\ net = <<>>
    /\ creditors = <<>>
    /\ debtors = <<>>
    /\ settlements = <<>>
    /\ pc = "idle"
    /\ prev = <<>>
    /\ api = "route"
    /\ store = <<>>
    /\ request = <<>>

(* a second call of computeNetBalances, on the same bills in any order *)
Recompute ==
    /\ pc = "computed"
    /\ prev = <<>>
    /\ prev' = <<[bills |-> bills, net |-> net]>>
    /\ \E bs \in Reorderings(bills) :
         /\ bills' = bs
         /\ net' = computeNetBalances(rev, bs)
         /\ debits' = [i \in 1..Len(bs) |-> billDebits(rev, bs[i])]
    /\ UNCHANGED <<rev, split, creditors, debtors, settlements, pc, api, store, request>>

NextOrder ==
    \/ ComputeNet
    \/ Recompute

SpecOrder == InitOrder /\ [][NextOrder]_vars

----------------------------------------------------------------------------
(* optimizeSettlements on every mapping of NumParties names to a balance   *)
(* in -MaxBal..MaxBal, listed from the largest balance to the smallest.    *)
(* The function sorts both lists with a stable sort and does not look at   *)
(* the names, so on any other insertion order it runs as it does on the    *)
(* sorted one, up to a renaming.                                           *)

(* the sequences of n balances of at most top, none above the one before *)
RECURSIVE Descending(_, _)
Descending(n, top) ==
    IF n = 0 THEN {<<>>}
    ELSE UNION {{<<a>> \o t : t \in Descending(n - 1, a)} : a \in -MaxBal..top}

NetInputs ==
    {[i \in 1..NumParties |-> [user |-> i, amount |-> f[i]]] :
        f \in Descending(NumParties, MaxBal)}

InitSettle ==
    /\ rev \in Revisions
    /\ bills = <<>>
    /\ split = <<>>
    /\ debits = <<>>
    /\ net \in NetInputs
    /\ creditors = <<>>
    /\ debtors = <<>>
    /\ settlements = <<>>
    /\ pc = "computed"
    /\ prev = <<>>
    /\ api = "route"
    /\ store = <<>>
    /\ request = <<>>

NextSettle ==
    \/ StartOptimize
    \/ MatchStep
    \/ Return

SpecSettle == InitSettle /\ [][NextSettle]_vars

----------------------------------------------------------------------------
(* The bills API, in the three revisions the repository holds: api is      *)
(* "route" for src/src/app/api/bills/route.ts (bills kept in memory),      *)
(* "part_001" for src/unnamed/part_001 (bills kept in a JSON file) and     *)
(* "part_000" for src/unnamed/part_000 (handlers by URL id, and the        *)
(* collection handlers).                                                   *)
(*                                                                         *)
(* A request body is any JSON value.  An object is [kind, id, data]: id is *)
(* NoId when the object has no id, data stands for the other fields and is *)
(* 0 when a required field is missing.  An array has no fields; it can     *)
(* carry an id only as a property set by the code, which JSON.stringify    *)
(* does not write.  request keeps the last request handled, the store      *)
(* before it and the status of the response.                               *)

Apis == {"route", "part_001", "part_000"}

NoId == 0

Ids == 1..MaxId

JsonBodies ==
    {[kind |-> "object", id |-> i, data |-> d] : i \in {NoId} \cup Ids, d \in 0..MaxData}
        \cup {[kind |-> "array", id |-> NoId, data |-> 0]}

(* JSON.parse(JSON.stringify(v)) *)
Stringified(v) == IF v.kind = "array" THEN [v EXCEPT !.id = NoId] ELSE v

(* writeBills followed by the next readBills *)
writeBills(bs) == [i \in 1..Len(bs) |-> Stringified(bs[i])]

Saved(a, bs) == IF a = "route" THEN bs ELSE writeBills(bs)

(* part_001: !bill.description || !bill.amount || ... || bill.amount <= 0 *)
Valid(body) == body.kind = "object" /\ body.data > 0

(* the bills POST can push for a body: none when the request is rejected; *)
(* part_001 fills a missing id with `bill-${Date.now()}`                    *)
Posted(a, body) ==
    IF a = "part_001"
    THEN IF ~Valid(body) THEN {}
         ELSE IF body.id = NoId THEN {[body EXCEPT !.id = g] : g \in Ids}
         ELSE {body}
    ELSE {body}

Handled(method, id, body, status) ==
    request' = <<[method |-> method, id |-> id, body |-> body,
                  before |-> store, status |-> status]>>

StoreFrame ==
    UNCHANGED <<rev, bills, split, debits, net, creditors, debtors, settlements,
                pc, prev, api>>

POST ==
    /\ Len(store) < MaxStore
    /\ \E body \in JsonBodies :
         IF Posted(api, body) = {}
         THEN /\ store' = store
              /\ Handled("POST", body.id, body, 400)
         ELSE \E bill \in Posted(api, body) :
                /\ store' = Saved(api, Append(store, bill))
                /\ Handled("POST", body.id, body, 200)
    /\ StoreFrame

(* bills.map(bill => bill.id === updatedBill.id ? updatedBill : bill) *)
Replaced(bs, updatedBill) ==
    [i \in 1..Len(bs) |-> IF bs[i].id = updatedBill.id THEN updatedBill ELSE bs[i]]

PUT ==
    /\ api \in {"route", "part_001"}
    /\ \E updatedBill \in JsonBodies :
         /\ store' = Saved(api, Replaced(store, updatedBill))
         /\ Handled("PUT", updatedBill.id, updatedBill, 200)
    /\ StoreFrame

(* bills.filter(bill => bill.id !== id) *)
Without(bs, id) == SelectSeq(bs, LAMBDA b : b.id # id)

DELETE ==
    /\ api \in {"route", "part_001"}
    /\ \E id \in {NoId} \cup Ids :
         IF api = "part_001" /\ id = NoId
         THEN /\ store' = store
              /\ Handled("DELETE", id, <<>>, 400)
         ELSE IF api = "part_001" /\ Len(Without(store, id)) = Len(store)
         THEN /\ store' = store
              /\ Handled("DELETE", id, <<>>, 404)
         ELSE /\ store' = Saved(api, Without(store, id))
              /\ Handled("DELETE", id, <<>>, 200)
    /\ StoreFrame

(* bills.findIndex((b) => b.id === id), 0 for -1 *)
findIndex(bs, id) ==
    IF \E i \in 1..Len(bs) : bs[i].id = id
    THEN CHOOSE i \in 1..Len(bs) :
            /\ bs[i].id = id
            /\ \A j \in 1..(i - 1) : bs[j].id # id
    ELSE 0

(* updatedBill.id = id; bills[index] = updatedBill *)
Updated(bs, index, id, updatedBill) ==
    [bs EXCEPT ![index] = [updatedBill EXCEPT !.id = id]]

handlePut ==
    /\ api = "part_000"
    /\ \E id \in Ids, updatedBill \in JsonBodies :
         IF findIndex(store, id) = 0
         THEN /\ store' = store
              /\ Handled("handlePut", id, updatedBill, 404)
         ELSE /\ store' = writeBills(Updated(store, findIndex(store, id), id, updatedBill))
              /\ Handled("handlePut", id, updatedBill, 200)
    /\ StoreFrame

handleDelete ==
    /\ api = "part_000"
    /\ \E id \in Ids :
         IF Len(Without(store, id)) = Len(store)
         THEN /\ store' = store
              /\ Handled("handleDelete", id, <<>>, 404)
         ELSE /\ store' = writeBills(Without(store, id))
              /\ Handled("handleDelete", id, <<>>, 200)
    /\ StoreFrame

(* part_000, DELETE of the collection: writeBills([]) *)
ResetBills ==
    /\ api = "part_000"
    /\ store' = <<>>
    /\ Handled("DELETE", NoId, <<>>, 200)
    /\ StoreFrame

InitStore ==
    /\ rev = "page"
    /\ bills = <<>>
    /\ split = <<>>
    /\ debits = <<>>
    /\ net = <<>>
    /\ creditors = <<>>
    /\ debtors = <<>>
    /\ settlements = <<>>
    /\ pc = "idle"
    /\ prev = <<>>
    /\ api \in Apis
    /\ store = <<>>
    /\ request = <<>>

NextStore ==
    \/ POST
    \/ PUT
    \/ DELETE
    \/ handlePut
    \/ handleDelete
    \/ ResetBills

SpecStore == InitStore /\ [][NextStore]_vars

----------------------------------------------------------------------------
(* Properties *)

Abs(x) == IF x < 0 THEN -x ELSE x

NetComputed == pc \in {"computed", "match", "done"}

(* the balances after every transfer is executed: from pays amount to to *)
RECURSIVE Execute(_, _)
Execute(m, ts) ==
    IF ts = <<>> THEN m
    ELSE LET t == Head(ts)
             paid == Put(m, t.from, Get(m, t.from) + t.amount)
         IN Execute(Put(paid, t.to, Get(paid, t.to) - t.amount), Tail(ts))

(* C1: the net balances computeNetBalances returns for a collection of     *)
(* well-formed bills sum to 0, in each revision of the page.               *)
C1_ZeroSum == NetComputed => SumValues(net) = 0

(* C2: the shares splitBill returns for a well-formed bill sum to the      *)
(* amount of the bill, in each revision of splitBill.                      *)
C2_SplitSum == split # <<>> => SumValues(split[1]) = bills[1].amount

(* C3: for a net-balance mapping that sums to zero, executing every        *)
(* transfer optimizeSettlements (part_002) returns leaves every            *)
(* participant's balance within epsilon of zero.                           *)
C3_SettlementCorrect ==
    (rev = "part_002" /\ pc = "done" /\ SumValues(net) = 0) =>
        \A u \in Keys(net) : Abs(Get(Execute(net, settlements), u)) <= Eps

(* C4: splitBill never gives a participant that has a maxContributions     *)
(* entry a share greater than that entry, in each revision of splitBill.   *)
C4_CapIsCeiling ==
    split # <<>> =>
        \A u \in DOMAIN bills[1].maxContributions :
            Get(split[1], u) <= bills[1].maxContributions[u]

(* C5: when every participant of a bill has a cap and the caps sum to less *)
(* than the amount, the payer is charged the whole shortfall on top of any *)
(* capped share of their own, every other participant is charged exactly   *)
(* their cap, and the charges total the amount; for splitBill and for the  *)
(* per-bill debits of computeNetBalances (part_002).                       *)
AllCappedShortfall(bill) ==
    /\ \A i \in 1..Len(bill.participants) : HasMax(bill, bill.participants[i])
    /\ SumCaps(bill.participants, bill.maxContributions) < bill.amount

ExpectedCharge(bill, u) ==
    (IF HasMax(bill, u) THEN bill.maxContributions[u] ELSE 0)
    + (IF u = bill.paidBy
       THEN bill.amount - SumCaps(bill.participants, bill.maxContributions)
       ELSE 0)

ChargedAsExpected(bill, charges) ==
    /\ \A u \in Users : Get(charges, u) = ExpectedCharge(bill, u)
    /\ SumValues(charges) = bill.amount

C5_ShortfallToPayer ==
    (rev = "part_002" /\ AllCappedShortfall(bills[1])) =>
        /\ split # <<>> => ChargedAsExpected(bills[1], split[1])
        /\ debits # <<>> => ChargedAsExpected(bills[1], Accumulate(<<>>, debits[1]))

(* C6: with amount > 0 and caps >= 0, every share splitBill produces and   *)
(* every amount computeNetBalances debits for a bill is >= 0.              *)
C6_NonNegative ==
    /\ split # <<>> => \A i \in 1..Len(split[1]) : split[1][i].amount >= 0
    /\ debits # <<>> => \A i \in 1..Len(debits[1]) : debits[1][i].amount >= 0

(* C7: for a net-balance mapping that sums to zero, when the matching loop *)
(* of optimizeSettlements stops, the creditor list and the debtor list are *)
(* both empty.                                                             *)
C7_BothEmpty ==
    (pc = "done" /\ SumValues(net) = 0) => (creditors = <<>> /\ debtors = <<>>)

(* C8: no transfer optimizeSettlements returns has from equal to to, for   *)
(* every input mapping.                                                    *)
C8_NoSelfSettlement ==
    \A i \in 1..Len(settlements) : settlements[i].from # settlements[i].to

C8_Witness == pc = "done" /\ Len(settlements) >= 2

(* C9: every transfer optimizeSettlements returns has a strictly positive  *)
(* amount, for every input mapping, zero-sum or not.                       *)
C9_PositiveAmounts ==
    \A i \in 1..Len(settlements) : settlements[i].amount > 0

C9_Witness == pc = "done" /\ settlements # <<>> /\ SumValues(net) # 0

(* C10: for an empty bill collection computeNetBalances returns a mapping  *)
(* with every user of the universe at balance 0, and optimizeSettlements   *)
(* on that mapping returns the empty list.                                 *)
C10_EmptyBills ==
    (bills = <<>> /\ NetComputed) =>
        /\ \A u \in Users : Has(net, u) /\ Get(net, u) = 0
        /\ pc = "done" => settlements = <<>>

(* C11: the mapping computeNetBalances returns has an entry for every user *)
(* of the universe and for every name that occurs as paidBy or in the      *)
(* participants of a bill, names outside the universe included.            *)
Participants(bill) == {bill.participants[i] : i \in 1..Len(bill.participants)}

Referenced(bs) ==
    UNION {Participants(bs[i]) \cup {bs[i].paidBy} : i \in 1..Len(bs)}

C11_EveryoneListed ==
    NetComputed => \A u \in Users \cup Referenced(bills) : Has(net, u)

(* C12: given a malformed bill (no participants, amount <= 0, or a payer   *)
(* outside both the participants and the universe) splitBill and           *)
(* computeNetBalances signal an error instead of returning a result.       *)
Malformed(bill) ==
    \/ Len(bill.participants) = 0
    \/ bill.amount <= 0
    \/ (bill.paidBy \notin Participants(bill) /\ bill.paidBy \notin Users)

C12_MalformedSignalled ==
    Malformed(bills[1]) => (split = <<>> /\ ~NetComputed)

(* C13: when the creditor list and the debtor list do not become empty in  *)
(* the same iteration, optimizeSettlements signals an invariant violation  *)
(* and does not return a settlement list normally.                         *)
C13_ImbalanceSignalled ==
    pc = "done" => ((creditors = <<>>) <=> (debtors = <<>>))

(* C18: at every iteration of the matching loop the creditor chosen has    *)
(* the largest remaining amount of all creditors in the list, and the      *)
(* debtor chosen the largest remaining amount of all debtors in the list.  *)
LargestFirst(list) ==
    \A i \in 1..Len(list) : list[i].amount <= Head(list).amount

C18_LargestChosen ==
    (pc = "match" /\ creditors # <<>> /\ debtors # <<>>) =>
        (LargestFirst(creditors) /\ LargestFirst(debtors))

(* C19: for a well-formed bill, what computeNetBalances debits from each   *)
(* participant equals the share splitBill returns for that participant,    *)
(* and it debits nobody who is absent from the split, in each revision.    *)
C19_AggregatorUsesSplit ==
    (split # <<>> /\ debits # <<>>) =>
        LET debited == Accumulate(<<>>, debits[1])
        IN /\ Keys(debited) \subseteq Keys(split[1])
           /\ \A u \in Keys(split[1]) : Get(debited, u) = Get(split[1], u)

(* C20: the matching loop terminates on every input mapping: every         *)
(* iteration removes a party from the creditor list or the debtor list, so *)
(* the iterations made never exceed the number of creditors plus the       *)
(* number of debtors; with the test === 0 and with the test < 0.01.        *)
CountCreditors(r, m) == Len(SelectSeq(m, LAMBDA e : IsCreditor(r, e.amount)))

CountDebtors(r, m) == Len(SelectSeq(m, LAMBDA e : IsDebtor(r, e.amount)))

C20_LoopBounded ==
    pc \in {"match", "done"} =>
        Len(settlements) + Len(creditors) + Len(debtors)
            <= CountCreditors(rev, net) + CountDebtors(rev, net)

C20_Witness == pc = "done" /\ Len(settlements) >= 3

StoreIds(bs) == [i \in 1..Len(bs) |-> bs[i].id]

(* C16: after any sequence of POST, PUT and DELETE requests from an empty  *)
(* store, no two stored bills have the same id.                            *)
C16_UniqueIds ==
    \A i, j \in 1..Len(store) :
        (store[i].id # NoId /\ store[i].id = store[j].id) => i = j

PutHandled ==
    /\ request # <<>>
    /\ request[1].method \in {"PUT", "handlePut"}

(* C17: a PUT request, by URL id in handlePut or by body id in the         *)
(* collection PUT, changes neither the number of stored bills nor the      *)
(* sequence of their ids, and changes no bill but one with the id it       *)
(* addresses.                                                              *)
C17_IdsImmutable ==
    PutHandled =>
        /\ Len(store) = Len(request[1].before)
        /\ StoreIds(store) = StoreIds(request[1].before)
        /\ \A i \in 1..Len(store) :
             store[i] # request[1].before[i] => request[1].before[i].id = request[1].id

Uncapped(bill) == {u \in Participants(bill) : ~HasMax(bill, u)}

(* C21: in computeNetBalances of part_002, for a bill with at least one    *)
(* participant without a maxContributions entry, every participant that    *)
(* has an entry, 0 included, is debited exactly the value of the entry.    *)
C21_CappedDebitedCap ==
    (rev = "part_002" /\ debits # <<>> /\ Uncapped(bills[1]) # {}) =>
        \A u \in Participants(bills[1]) \ Uncapped(bills[1]) :
            Get(Accumulate(<<>>, debits[1]), u) = bills[1].maxContributions[u]

(* the participants splitBill does not fix to their cap: in page.tsx the  *)
(* ones without an entry, in part_002 also the ones whose entry is not     *)
(* below the equal share                                                   *)
NotFixed(r, bill) ==
    {u \in Participants(bill) :
        IF r = "page" THEN ~HasMax(bill, u) ELSE ~BelowEqualShare(bill, u)}

RECURSIVE SumOver(_, _)
SumOver(S, shares) ==
    IF S = {} THEN 0
    ELSE LET u == CHOOSE v \in S : TRUE
         IN Get(shares, u) + SumOver(S \ {u}, shares)

(* C22: when at least one participant is not fixed to a cap, splitBill     *)
(* gives every such participant one identical share, (amount minus the     *)
(* shares fixed to caps) divided by the number of such participants.       *)
C22_RemainderSharedEqually ==
    split # <<>> =>
        LET bill == bills[1]
            free == NotFixed(rev, bill)
            fixed == Participants(bill) \ free
        IN free # {} =>
             /\ \A u \in fixed : Get(split[1], u) = bill.maxContributions[u]
             /\ \A u \in free :
                  Get(split[1], u) * Cardinality(free)
                      = bill.amount - SumOver(fixed, split[1])

C22_Witness ==
    /\ split # <<>>
    /\ rev = "part_002"
    /\ Cardinality(NotFixed(rev, bills[1])) >= 2
    /\ Cardinality(Participants(bills[1]) \ NotFixed(rev, bills[1])) >= 1
    /\ \E u \in NotFixed(rev, bills[1]) : HasMax(bills[1], u)

InTransfers(u) ==
    \E i \in 1..Len(settlements) : settlements[i].from = u \/ settlements[i].to = u

(* C24: in part_002 a participant whose input balance is within 0.01 of    *)
(* zero appears in no returned transfer, as from or as to.                 *)
C24_SettledExcluded ==
    rev = "part_002" =>
        \A u \in Keys(net) : Abs(Get(net, u)) <= Eps => ~InTransfers(u)

C24_Witness ==
    /\ pc = "done"
    /\ rev = "part_002"
    /\ settlements # <<>>
    /\ \E u, v \in Keys(net) : Get(net, u) = Eps /\ Get(net, v) = -Eps

RECURSIVE SumPaid(_, _, _)
SumPaid(ts, u, side) ==
    IF ts = <<>> THEN 0
    ELSE (IF Head(ts)[side] = u THEN Head(ts).amount ELSE 0) + SumPaid(Tail(ts), u, side)

(* C25: for every input mapping, what the transfers take from a debtor     *)
(* never exceeds the magnitude of its input balance, and what they give to *)
(* a creditor never exceeds its input balance.                             *)
C25_NoOverSettlement ==
    \A u \in Keys(net) :
        /\ SumPaid(settlements, u, "from") <= Larger(0, -Get(net, u))
        /\ SumPaid(settlements, u, "to") <= Larger(0, Get(net, u))

C25_Witness ==
    /\ pc = "done"
    /\ \E i, j \in 1..Len(settlements) :
         /\ i # j
         /\ settlements[i].from = settlements[j].from
    /\ \E i, j \in 1..Len(settlements) :
         /\ i # j
         /\ settlements[i].to = settlements[j].to

=============================================================================
